---- MODULE Spec2Model ----
(***************************************************************************)
(* Request-handling path of the RPG assistant cloud function.              *)
(*                                                                         *)
(* Two revisions of the same module are in the repository:                 *)
(*   "V3"  src/functions/src/index.ts   (callRpgAssistantV3)               *)
(*   "V2"  src/unnamed/part_000         (callRpgAssistantV2)               *)
(* Both define the Genkit flow rpgAssistantFlow and an onCall handler.     *)
(* One call is followed from its arrival to the result delivered to the    *)
(* caller; calls share no state, so one call at a time is modelled.        *)
(*                                                                         *)
(* JavaScript values are records [t |-> typeof-like tag, s |-> content].   *)
(* What the libraries around the code do and the source does not fix       *)
(* (the shape of the model client's response, the value flow.run resolves  *)
(* to) is a nondeterministic input of the step that consumes it.           *)
(***************************************************************************)
EXTENDS Integers, Sequences, FiniteSets, TLC

VARIABLES
    pc,            \* position of the call
    mode,          \* "endpoint": through the callable; "direct": flow invoked directly
    version,       \* which revision of the module serves the call
    auth,          \* request.auth
    data,          \* request.data
    flowInvoked,   \* rpgAssistantFlow.run was called during this call
    flowInput,     \* the argument of rpgAssistantFlow.run
    genCalls,      \* number of ai.generate calls during this call
    genArgs,       \* the argument of the last ai.generate call
    clientOut,     \* what the model client did
    flowRes,       \* what rpgAssistantFlow.run resolved or rejected with
    handlerRes,    \* what the handler returned or threw
    outcome        \* what the caller observes

vars == <<pc, mode, version, auth, data, flowInvoked, flowInput, genCalls,
          genArgs, clientOut, flowRes, handlerRes, outcome>>

----------------------------------------------------------------------------
(* Bounds *)

MaxHistLen == 2

----------------------------------------------------------------------------
(* JavaScript values *)

JsVal(t, s) == [t |-> t, s |-> s]
JsUndefined == JsVal("undefined", "")
JsNull == JsVal("null", "")
Str(s) == JsVal("string", s)

Versions == {"V2", "V3"}
NoAuth == "absent"
AuthValues == {NoAuth, "uid1"}

UserPromptValues ==
    { JsUndefined, JsNull, Str(""), Str("p1"), Str("p2"),
      JsVal("number", "0"), JsVal("number", "7"), JsVal("object", "{}") }

HistTexts == {"h1"}
PartValues == { [text |-> Str("h1")], [text |-> JsUndefined] }
PartsValues == { <<>> } \cup { <<p>> : p \in PartValues }
RoleValues == {"user", "model", "system"}
TurnValues == [role : RoleValues, parts : PartsValues]

SeqsUpTo(S, n) == UNION { [1..k -> S] : k \in 0..n }

HistoryValues ==
    { [t |-> "undefined", turns |-> <<>>], [t |-> "null", turns |-> <<>>] }
    \cup { [t |-> "array", turns |-> h] : h \in SeqsUpTo(TurnValues, MaxHistLen) }

NullData == [isNull |-> TRUE, userPrompt |-> JsUndefined,
             conversationHistory |-> [t |-> "undefined", turns |-> <<>>]]
DataValues ==
    { NullData } \cup
    [isNull : {FALSE}, userPrompt : UserPromptValues, conversationHistory : HistoryValues]

FlowInputValues == [userPrompt : UserPromptValues, conversationHistory : HistoryValues]
NoInput == [userPrompt |-> JsUndefined,
            conversationHistory |-> [t |-> "undefined", turns |-> <<>>]]

ErrMsgs == {"quota exceeded", "socket hang up"}
ModelTexts == {"t1", "t2"}
NoClientOut == [kind |-> "none", text |-> "", textIsMethod |-> FALSE, message |-> ""]
ClientOutValues ==
    [kind : {"ok"}, text : ModelTexts, textIsMethod : BOOLEAN, message : {""}]
    \cup [kind : {"throw"}, text : {""}, textIsMethod : {FALSE}, message : ErrMsgs]

NoErr == [class |-> "", message |-> ""]
NoFlowRes == [kind |-> "none", value |-> JsUndefined, err |-> NoErr]
NoResult == [kind |-> "none", code |-> "", message |-> "", response |-> JsUndefined]
NoGenArgs == [prompt |-> <<>>, history |-> [t |-> "undefined", turns |-> <<>>],
              temperatureTenths |-> 0, maxOutputTokens |-> 0]

HttpsError(code, message) ==
    [kind |-> "error", code |-> code, message |-> message, response |-> JsUndefined]

----------------------------------------------------------------------------
(* Program constants *)

TemperatureTenths == 7
MaxOutputTokens == 500

PersonaV3 == "You are Bastion, a helpful assistant for the Tangent SFF RPG."
PersonaV2 == "You are Bastion, a helpful, creative, and knowledgeable assistant for the Tangent SFF RPG. The user's current request is: \""
TailV2 == "\" Please provide a concise, relevant, and creative response."

UnauthMsgV3 == "The function requires authentication."
UnauthMsgV2 == "The AI assistant requires authentication."
InvalidMsg == "The function expects a valid \"userPrompt\" string."
InternalMsgV3 == "An internal error occurred. Check function logs for debug trace."
InternalMsgV2 == "An internal error occurred while processing your request. Check the function logs for details."

----------------------------------------------------------------------------
(* The handler's gates *)

IsUnauthenticatedSkipped(a) == FALSE

\* if (!request.auth)
IsUnauthenticated(a) == a = NoAuth

\* JavaScript truthiness of the values a userPrompt can take
Falsy(v) ==
    \/ v.t \in {"undefined", "null"}
    \/ v.t = "string" /\ v.s = ""
    \/ v.t = "number" /\ v.s = "0"

\* if (!userPrompt || typeof userPrompt !== 'string')
InvalidUserPrompt(up) == Falsy(up) \/ up.t # "string"

UnauthenticatedError(v) ==
    HttpsError("unauthenticated", IF v = "V3" THEN UnauthMsgV3 ELSE UnauthMsgV2)

InvalidArgumentError(v) == HttpsError("invalid-argument", InvalidMsg)

\* const { userPrompt, conversationHistory } = request.data, request.data being null
DestructureError ==
    [kind |-> "throw", code |-> "TypeError",
     message |-> "Cannot destructure property 'userPrompt' of 'request.data' as it is null.",
     response |-> JsUndefined]

----------------------------------------------------------------------------
(* The flow *)

\* inputSchema: z.object({ userPrompt: z.string(), conversationHistory:
\*   z.array(z.object({ role: z.enum(['user','model']),
\*                      parts: z.array(z.object({ text: z.string() })) })).optional() })
TurnSchemaOk(turn) ==
    /\ turn.role \in {"user", "model"}
    /\ \A j \in DOMAIN turn.parts : turn.parts[j].text.t = "string"

InputSchemaOk(inp) ==
    /\ inp.userPrompt.t = "string"
    /\ \/ inp.conversationHistory.t = "undefined"
       \/ /\ inp.conversationHistory.t = "array"
          /\ \A i \in DOMAIN inp.conversationHistory.turns :
                TurnSchemaOk(inp.conversationHistory.turns[i])

SchemaError ==
    [class |-> "GenkitError", message |-> "INVALID_ARGUMENT: Schema validation failed."]

\* const fullPrompt = `...`, a sequence of the template's pieces
FullPrompt(v, up) ==
    IF v = "V3" THEN << PersonaV3 >> ELSE << PersonaV2, up.s, TailV2 >>

Reverse(q) == [i \in 1..Len(q) |-> q[Len(q) + 1 - i]]

GenerateArgsReversed(v, inp) ==
    [prompt |-> FullPrompt(v, inp.userPrompt),
     history |-> [t |-> inp.conversationHistory.t,
                  turns |-> Reverse(inp.conversationHistory.turns)],
     temperatureTenths |-> TemperatureTenths,
     maxOutputTokens |-> MaxOutputTokens]

\* ai.generate({ prompt: fullPrompt, history: conversationHistory,
\*               config: { temperature: 0.7, maxOutputTokens: 500 } })
GenerateArgs(v, inp) ==
    [prompt |-> FullPrompt(v, inp.userPrompt),
     history |-> inp.conversationHistory,
     temperatureTenths |-> TemperatureTenths,
     maxOutputTokens |-> MaxOutputTokens]

\* return response.text()  (V3)    return response.text  (V2)
\* text is a method in some releases of the client and an accessor in others:
\* calling an accessor's string throws, reading a method yields a function,
\* which outputSchema: z.string() rejects.
ExtractText(v, co) ==
    IF v = "V3"
    THEN IF co.textIsMethod
         THEN [kind |-> "ok", value |-> Str(co.text), err |-> NoErr]
         ELSE [kind |-> "throw", value |-> JsUndefined,
               err |-> [class |-> "TypeError", message |-> "response.text is not a function"]]
    ELSE IF co.textIsMethod
         THEN [kind |-> "throw", value |-> JsUndefined, err |-> SchemaError]
         ELSE [kind |-> "ok", value |-> Str(co.text), err |-> NoErr]

\* What rpgAssistantFlow.run(...) resolves to: the flow's return value, or a
\* result object around it (the "complex object" of index.ts:84-85).
RunValue(val, wrapped) == IF wrapped THEN JsVal("object", val.s) ELSE val

----------------------------------------------------------------------------
(* The handler's tail *)

\* `${aiResponseText}`
Stringify(val) ==
    CASE val.t = "string" -> val.s
      [] val.t = "object" -> "[object Object]"
      [] val.t = "undefined" -> "undefined"
      [] val.t = "null" -> "null"
      [] OTHER -> val.s

\* { response: `${aiResponseText}` }  (V3)    { response: aiResponse }  (V2)
Envelope(v, val) ==
    [kind |-> "success", code |-> "", message |-> "",
     response |-> IF v = "V3" THEN Str(Stringify(val)) ELSE val]

CatchErrorLeaky(v, err) == HttpsError("internal", err.message)

CatchErrorOtherCode(v, err) ==
    HttpsError(IF err.class = "GenkitError" THEN "failed-precondition" ELSE "internal",
               IF v = "V3" THEN InternalMsgV3 ELSE InternalMsgV2)

\* catch (error) { throw new HttpsError('internal', '...') }
CatchError(v, err) ==
    HttpsError("internal", IF v = "V3" THEN InternalMsgV3 ELSE InternalMsgV2)

\* onCall: an HttpsError and a returned value reach the caller as they are;
\* anything else thrown reaches the caller as internal / "INTERNAL".
OnCallResult(hr) ==
    IF hr.kind = "throw" THEN HttpsError("internal", "INTERNAL") ELSE hr

----------------------------------------------------------------------------
(* State machine of one call *)

Init ==
    /\ pc = "idle"
    /\ mode = "endpoint"
    /\ version = "V3"
    /\ auth = NoAuth
    /\ data = NullData
    /\ flowInvoked = FALSE
    /\ flowInput = NoInput
    /\ genCalls = 0
    /\ genArgs = NoGenArgs
    /\ clientOut = NoClientOut
    /\ flowRes = NoFlowRes
    /\ handlerRes = NoResult
    /\ outcome = NoResult

Fresh ==
    /\ genCalls' = 0
    /\ genArgs' = NoGenArgs
    /\ clientOut' = NoClientOut
    /\ flowRes' = NoFlowRes
    /\ handlerRes' = NoResult
    /\ outcome' = NoResult

\* A caller invokes the callable function: the transport attaches request.auth
\* and the decoded request.data.
Call(v, a, d) ==
    /\ pc = "idle"
    /\ pc' = "handler"
    /\ mode' = "endpoint"
    /\ version' = v
    /\ auth' = a
    /\ data' = d
    /\ flowInvoked' = FALSE
    /\ flowInput' = NoInput
    /\ Fresh

\* The exported flow is invoked without the endpoint (as a test would).
CallFlowDirect(v, inp) ==
    /\ pc = "idle"
    /\ pc' = "flowStart"
    /\ mode' = "direct"
    /\ version' = v
    /\ auth' = NoAuth
    /\ data' = NullData
    /\ flowInvoked' = TRUE
    /\ flowInput' = inp
    /\ Fresh

\* The handler from its entry to the await of rpgAssistantFlow.run.
HandlerStart ==
    /\ pc = "handler"
    /\ IF IsUnauthenticated(auth)
       THEN /\ handlerRes' = UnauthenticatedError(version)
            /\ pc' = "returning"
            /\ UNCHANGED <<flowInvoked, flowInput>>
       ELSE IF data.isNull
       THEN /\ handlerRes' = DestructureError
            /\ pc' = "returning"
            /\ UNCHANGED <<flowInvoked, flowInput>>
       ELSE IF InvalidUserPrompt(data.userPrompt)
       THEN /\ handlerRes' = InvalidArgumentError(version)
            /\ pc' = "returning"
            /\ UNCHANGED <<flowInvoked, flowInput>>
       ELSE /\ flowInput' = [userPrompt |-> data.userPrompt,
                             conversationHistory |-> data.conversationHistory]
            /\ flowInvoked' = TRUE
            /\ pc' = "flowStart"
            /\ UNCHANGED handlerRes
    /\ UNCHANGED <<mode, version, auth, data, genCalls, genArgs, clientOut, flowRes, outcome>>

\* The flow from the check of its input schema to the await of ai.generate.
FlowStart ==
    /\ pc = "flowStart"
    /\ IF InputSchemaOk(flowInput)
       THEN /\ genArgs' = GenerateArgs(version, flowInput)
            /\ genCalls' = genCalls + 1
            /\ pc' = "generating"
            /\ UNCHANGED flowRes
       ELSE /\ flowRes' = [kind |-> "throw", value |-> JsUndefined, err |-> SchemaError]
            /\ pc' = "flowEnd"
            /\ UNCHANGED <<genArgs, genCalls>>
    /\ UNCHANGED <<mode, version, auth, data, flowInvoked, flowInput, clientOut,
                   handlerRes, outcome>>

\* The model client answers or fails.
ClientRespond(o) ==
    /\ pc = "generating"
    /\ clientOut' = o
    /\ pc' = "generated"
    /\ UNCHANGED <<mode, version, auth, data, flowInvoked, flowInput, genCalls,
                   genArgs, flowRes, handlerRes, outcome>>

\* The flow after the await: a client error propagates, otherwise the text is
\* taken from the response and run resolves.
FlowFinish(wrapped) ==
    /\ pc = "generated"
    /\ flowRes' =
         IF clientOut.kind = "throw"
         THEN [kind |-> "throw", value |-> JsUndefined,
               err |-> [class |-> "ClientError", message |-> clientOut.message]]
         ELSE LET r == ExtractText(version, clientOut) IN
              IF r.kind = "ok"
              THEN [r EXCEPT !.value = RunValue(r.value, wrapped)]
              ELSE r
    /\ pc' = "flowEnd"
    /\ UNCHANGED <<mode, version, auth, data, flowInvoked, flowInput, genCalls,
                   genArgs, clientOut, handlerRes, outcome>>

HandlerFinishRetrying ==
    /\ pc = "flowEnd"
    /\ mode = "endpoint"
    /\ IF flowRes.kind = "ok"
       THEN /\ handlerRes' = Envelope(version, flowRes.value)
            /\ pc' = "returning"
            /\ UNCHANGED flowRes
       ELSE IF genCalls = 1
       THEN /\ pc' = "flowStart"
            /\ flowRes' = NoFlowRes
            /\ UNCHANGED handlerRes
       ELSE /\ handlerRes' = CatchError(version, flowRes.err)
            /\ pc' = "returning"
            /\ UNCHANGED flowRes
    /\ UNCHANGED <<mode, version, auth, data, flowInvoked, flowInput, genCalls,
                   genArgs, clientOut, outcome>>

\* The handler after the await: the try block's tail, or the catch block.
HandlerFinish ==
    /\ pc = "flowEnd"
    /\ mode = "endpoint"
    /\ handlerRes' = IF flowRes.kind = "ok"
                     THEN Envelope(version, flowRes.value)
                     ELSE CatchError(version, flowRes.err)
    /\ pc' = "returning"
    /\ UNCHANGED <<mode, version, auth, data, flowInvoked, flowInput, genCalls,
                   genArgs, clientOut, flowRes, outcome>>

\* onCall hands the handler's result to the caller.
OnCallDeliver ==
    /\ pc = "returning"
    /\ outcome' = OnCallResult(handlerRes)
    /\ pc' = "done"
    /\ UNCHANGED <<mode, version, auth, data, flowInvoked, flowInput, genCalls,
                   genArgs, clientOut, flowRes, handlerRes>>

\* A direct invocation ends with what run resolved or rejected with.
DirectReturn ==
    /\ pc = "flowEnd"
    /\ mode = "direct"
    /\ outcome' = IF flowRes.kind = "ok"
                  THEN [kind |-> "flowResult", code |-> "", message |-> "",
                        response |-> flowRes.value]
                  ELSE [kind |-> "flowError", code |-> flowRes.err.class,
                        message |-> flowRes.err.message, response |-> JsUndefined]
    /\ pc' = "done"
    /\ UNCHANGED <<mode, version, auth, data, flowInvoked, flowInput, genCalls,
                   genArgs, clientOut, flowRes, handlerRes>>

\* The call is over; nothing of it is kept for the next one.
Forget ==
    /\ pc = "done"
    /\ pc' = "idle"
    /\ mode' = "endpoint"
    /\ version' = "V3"
    /\ auth' = NoAuth
    /\ data' = NullData
    /\ flowInvoked' = FALSE
    /\ flowInput' = NoInput
    /\ Fresh

Next ==
    \/ pc = "idle" /\ \E v \in Versions, a \in AuthValues, d \in DataValues : Call(v, a, d)
    \/ pc = "idle" /\ \E v \in Versions, inp \in FlowInputValues : CallFlowDirect(v, inp)
    \/ HandlerStart
    \/ FlowStart
    \/ \E o \in ClientOutValues : ClientRespond(o)
    \/ \E w \in BOOLEAN : FlowFinish(w)
    \/ HandlerFinish
    \/ OnCallDeliver
    \/ DirectReturn
    \/ Forget

Spec == Init /\ [][Next]_vars

----------------------------------------------------------------------------
(* Shorthands for the properties *)

EndpointCall == mode = "endpoint" /\ pc # "idle"
DirectCall == mode = "direct" /\ pc # "idle"
Finished == pc = "done"
ValidPrompt == ~data.isNull /\ data.userPrompt.t = "string" /\ data.userPrompt.s # ""
Authenticated == auth # NoAuth
Range(q) == { q[i] : i \in DOMAIN q }
HasTextPart(turn) == \E j \in DOMAIN turn.parts : turn.parts[j].text.t = "string"
ErrorCodes == {"unauthenticated", "invalid-argument", "internal"}

----------------------------------------------------------------------------
(* Properties *)

\* C1: a call to the endpoint without an auth context, whatever its payload,
\* never invokes the flow or the model client and ends in unauthenticated.
UnauthenticatedIsRejected ==
    (EndpointCall /\ ~Authenticated) =>
        /\ ~flowInvoked
        /\ genCalls = 0
        /\ pc \in {"handler", "returning", "done"}
        /\ Finished => (outcome.kind = "error" /\ outcome.code = "unauthenticated")

UnauthenticatedWithValidPayload ==
    /\ EndpointCall /\ ~Authenticated /\ Finished
    /\ ValidPrompt
    /\ outcome.code = "unauthenticated"

\* C2: an authenticated call whose userPrompt is absent, null, empty or not a
\* string never invokes the flow and ends in invalid-argument.
BadPromptIsInvalidArgument ==
    (EndpointCall /\ Authenticated
       /\ (data.userPrompt.t # "string" \/ data.userPrompt.s = "")) =>
        /\ ~flowInvoked
        /\ Finished => (outcome.kind = "error" /\ outcome.code = "invalid-argument")

\* C3: when anything inside the flow's execution throws in an authenticated
\* call with a valid userPrompt, the caller gets the code internal with the
\* revision's fixed message, which is neither the error nor its message.
FlowFailureIsInternal ==
    (EndpointCall /\ Authenticated /\ ValidPrompt /\ Finished /\ flowRes.kind = "throw") =>
        /\ outcome.kind = "error"
        /\ outcome.code = "internal"
        /\ outcome.message = (IF version = "V3" THEN InternalMsgV3 ELSE InternalMsgV2)
        /\ outcome.message # flowRes.err.message
        /\ outcome.message \notin ErrMsgs
        /\ outcome.response = JsUndefined

ClientErrorCollapsed ==
    /\ EndpointCall /\ Authenticated /\ ValidPrompt /\ Finished
    /\ clientOut.kind = "throw"
    /\ flowRes.err.message \in ErrMsgs
    /\ outcome.code = "internal"

\* C4: a finished call to the endpoint has exactly one outcome, a success
\* envelope or an error whose code is unauthenticated, invalid-argument or
\* internal, and an unfinished call has none.
OneOfFourOutcomes ==
    EndpointCall =>
        IF Finished
        THEN \/ outcome.kind = "success" /\ outcome.code = ""
             \/ /\ outcome.kind = "error"
                /\ outcome.code \in ErrorCodes
                /\ outcome.response = JsUndefined
        ELSE outcome = NoResult

MalformedHistoryIsInternal ==
    /\ EndpointCall /\ Authenticated /\ ValidPrompt /\ Finished
    /\ ~InputSchemaOk(flowInput)
    /\ data.conversationHistory.t = "array"
    /\ outcome.code = "internal"

\* C5: the response field of every success envelope is a primitive string.
ResponseIsPrimitiveString ==
    (EndpointCall /\ Finished /\ outcome.kind = "success") =>
        outcome.response.t = "string"

\* C6: the response field of every success envelope is exactly the text the
\* model client returned.
ResponseIsModelText ==
    (EndpointCall /\ Finished /\ outcome.kind = "success") =>
        outcome.response = Str(clientOut.text)

\* C7: the history handed to the model client is the caller's
\* conversationHistory, same turns, same order (absent when the caller gave
\* none), and no piece of the prompt string is a history text.
HistoryPassedUnmodified ==
    (EndpointCall /\ Authenticated /\ ValidPrompt /\ genCalls >= 1) =>
        /\ genArgs.history = data.conversationHistory
        /\ \A i \in DOMAIN genArgs.prompt : genArgs.prompt[i] \notin HistTexts

OrderedHistoryReachedClient ==
    /\ EndpointCall /\ Authenticated /\ Finished
    /\ genCalls = 1
    /\ outcome.kind = "success"
    /\ Len(data.conversationHistory.turns) >= 2
    /\ data.conversationHistory.turns[1] # data.conversationHistory.turns[2]

\* C8: invoked directly, the flow never calls the model client for an empty
\* userPrompt, nor for a history holding a turn whose role is not user or
\* model or a turn without a text part.
FlowEnforcesSchema ==
    (DirectCall
       /\ \/ flowInput.userPrompt = Str("")
          \/ \E i \in DOMAIN flowInput.conversationHistory.turns :
                LET turn == flowInput.conversationHistory.turns[i] IN
                turn.role \notin {"user", "model"} \/ ~HasTextPart(turn)) =>
        genCalls = 0

\* C9: the prompt string handed to the model client holds the persona framing
\* and the caller's userPrompt, so another userPrompt gives another string.
PromptEmbedsUserPrompt ==
    (genCalls >= 1) =>
        /\ \E i \in DOMAIN genArgs.prompt : genArgs.prompt[i] \in {PersonaV2, PersonaV3}
        /\ flowInput.userPrompt.s \in Range(genArgs.prompt)
        /\ \A q \in UserPromptValues :
              (q.t = "string" /\ q # flowInput.userPrompt) =>
                  FullPrompt(version, q) # genArgs.prompt

\* C10: the model client is called at most once in a call, and once it has
\* failed the call only moves on to its end, which is the code internal.
NoRetry ==
    /\ genCalls <= 1
    /\ (EndpointCall /\ clientOut.kind = "throw") =>
          /\ genCalls = 1
          /\ pc \in {"generated", "flowEnd", "returning", "done"}
          /\ pc = "returning" => handlerRes.code = "internal"
          /\ Finished => outcome.code = "internal"

FailedOnceThenInternal ==
    /\ EndpointCall /\ Finished
    /\ clientOut.kind = "throw"
    /\ genCalls = 1
    /\ handlerRes.code = "internal"
====
